---------------------------- MODULE Spec2Model ----------------------------
(***************************************************************************)
(* ObjectFileDB: the "database" of object files found in DGO files         *)
(* (src/ObjectFileDB.cpp).  It eliminates duplicate object files and       *)
(* assigns unique names (name, version) to all object files.               *)
(*                                                                         *)
(* Spec       : the deduplication store, driven by add_obj_from_dgo.       *)
(* SpecDecomp : the chunk loop of get_objs_from_dgo that expands a         *)
(*              compressed ("oZlB") DGO.                                   *)
(* SpecDecompFair : SpecDecomp, where the loop keeps running.              *)
(* SpecDgo    : get_objs_from_dgo as a whole: the chunk loop, the parse of *)
(*              the DGO header and of the object files, the inserts.       *)
(* SpecPhases : the phases (process_link_data, process_labels, find_code,  *)
(*              analyze_functions) and generate_dgo_listing on a database  *)
(*              that has been built.                                       *)
(***************************************************************************)
EXTENDS Integers, Sequences, FiniteSets, TLC

(***************************************************************************)
(* Bounds of the model.                                                    *)
(***************************************************************************)
\* Calls of add_obj_from_dgo explored from the empty database.
MaxInserts == 3

\* Blocks in a generated compressed DGO.
MaxBlocks == 2

(***************************************************************************)
(* Generic helpers.                                                        *)
(***************************************************************************)
RECURSIVE SumSeq(_)
SumSeq(s) == IF s = <<>> THEN 0 ELSE Head(s) + SumSeq(Tail(s))

RECURSIVE SumOver(_, _)
SumOver(f, S) ==
  IF S = {} THEN 0
  ELSE LET x == CHOOSE y \in S : TRUE IN f[x] + SumOver(f, S \ {x})

Range(s) == { s[i] : i \in 1..Len(s) }

IsPrefix(s, t) == Len(s) <= Len(t) /\ \A i \in 1..Len(s) : s[i] = t[i]

(***************************************************************************)
(* crc32(obj_data, obj_size): the 32-bit fingerprint of line 160.  Its     *)
(* body is not part of ObjectFileDB.cpp; it is modelled as the standard    *)
(* reflected CRC-32 (polynomial 0xEDB88320, initial value and final xor    *)
(* 0xFFFFFFFF), computed bit by bit.  A 32-bit word is kept as its two     *)
(* 16-bit halves <<hi, lo>>, since TLC's integers are 32-bit signed.       *)
(***************************************************************************)
RECURSIVE Xor16(_, _)
Xor16(a, b) ==
  IF a = 0 THEN b
  ELSE IF b = 0 THEN a
  ELSE ((a + b) % 2) + 2 * Xor16(a \div 2, b \div 2)

\* One step of the bit loop: crc = (crc >> 1) ^ (crc & 1 ? 0xEDB88320 : 0).
CrcShift(w) ==
  LET hi == w[1] \div 2
      lo == (w[2] \div 2) + (w[1] % 2) * 32768
  IN IF w[2] % 2 = 1 THEN << Xor16(hi, 60856), Xor16(lo, 33568) >>
                     ELSE << hi, lo >>

\* The eight shifts of one byte.  (The test on x only makes TLC compute x
\* before it goes on; a half is never negative.)
RECURSIVE CrcBits(_, _)
CrcBits(w, n) ==
  IF n = 0 THEN w
  ELSE LET x == CrcShift(w)
       IN IF x[1] >= 0 /\ x[2] >= 0 THEN CrcBits(x, n - 1) ELSE x

\* crc ^= byte, then the eight shifts, for each byte of data[from..].
RECURSIVE CrcBytes(_, _, _)
CrcBytes(w, data, from) ==
  IF from > Len(data) THEN w
  ELSE LET x == CrcBits(<< w[1], Xor16(w[2], data[from]) >>, 8)
       IN IF x[1] >= 0 /\ x[2] >= 0 THEN CrcBytes(x, data, from + 1) ELSE x

crc32(data) ==
  LET w == CrcBytes(<< 65535, 65535 >>, data, 1)
  IN << 65535 - w[1], 65535 - w[2] >>

(***************************************************************************)
(* Inputs of add_obj_from_dgo (lines 154-157): object names, DGO names     *)
(* and object contents.  ContentA and ContentB are two different 5-byte    *)
(* contents with the same CRC-32 (0x470B99F4); ContentC has their length   *)
(* and another CRC-32.                                                     *)
(***************************************************************************)
\* (The second name ends like a unique name, which to_unique_name must still
\* keep apart from the unique names of "a.o".)
ObjNames == { "a.o", "a.o-v1" }
DgoNames == { "main.dgo", "game.dgo" }

ContentA == << 1, 2, 3, 4, 5 >>
ContentB == << 129, 34, 128, 188, 232 >>
ContentC == << 9, 8, 7, 6, 5 >>
ContentD == << 7 >>
ContentE == << >>
Contents == { ContentA, ContentB, ContentC, ContentD, ContentE }

\* The fingerprints of the contents, computed once.
HashOf == [ c \in Contents |-> crc32(c) ]

(***************************************************************************)
(* State of the ObjectFileDB.                                              *)
(***************************************************************************)
VARIABLES
  obj_files_by_name,  \* object name -> sequence of ObjectFileData (variants)
  obj_files_by_dgo,   \* DGO name -> sequence of ObjectFileRecord (membership)
  obj_file_order,     \* object names in the order they were first stored
  stats,              \* the counters printed by the constructor
  calls,              \* history: the arguments of every add_obj_from_dgo call
                      \* so far and the path it returned on, in call order
  \* get_objs_from_dgo, lines 75-128:
  pc,                 \* position in get_objs_from_dgo
  dgo_data,           \* the bytes of the DGO file; the expanded bytes at line 127
  seek,               \* compressed_reader's position (bytes from the start)
  decompressed_size,  \* the size word read at line 94
  decompressed_data,  \* the output vector, decompressed_size bytes
  output_offset,      \* where the next block is written
  chunk_size,         \* the last chunk size word read
  wrote_outside,      \* history: a block write went past the output vector
  read_outside,       \* history: a block read went past the input buffer
  source,             \* history: what the DGO file was generated from
  \* get_objs_from_dgo, lines 130-149:
  dgo_base_name,      \* base_name(filename)
  reader_seek,        \* reader's position (bytes from the start)
  header_size,        \* header.size, the number of objects of the DGO
  obj_index,          \* i, the number of objects read so far
  failure,            \* the line of the check that ended the parse, 0 if none
  name_overread,      \* history: a name was read past its 60-byte field
  \* the phases run on the database once it is built:
  built,              \* the constructor has returned
  linked_data,        \* << name, index >> of an entry -> its linked_data
  fatal,              \* an assertion of analyze_functions has failed
  listing,            \* what generate_dgo_listing returned last
  traversals,         \* history: the visiting orders of the for_each_obj calls
  out_of_order        \* history: a phase ran on an object before the phase
                      \* it depends on

store_vars ==
  << obj_files_by_name, obj_files_by_dgo, obj_file_order, calls >>

parse_vars ==
  << dgo_base_name, reader_seek, header_size, obj_index, failure,
     name_overread >>

loader_vars ==
  << pc, dgo_data, seek, decompressed_size, decompressed_data, output_offset,
     chunk_size, wrote_outside, read_outside, source, parse_vars >>

phase_vars ==
  << built, linked_data, fatal, listing, traversals, out_of_order >>

vars == << store_vars, stats, loader_vars, phase_vars >>

\* ObjectFileRecord::to_unique_name: name + "-v" + std::to_string(version).
to_unique_name(record) == record.name \o "-v" \o ToString(record.version)

\* The value ObjectFileData::reference_count holds when add_obj_from_dgo
\* default-constructs `data` (line 174).  The struct is declared in
\* ObjectFileDB.h; the value is the one the data model documents.
reference_count_initial == 1

\* All stored ObjectFileData, as << name, index in the variant list >>.
StoredEntries ==
  UNION { { << n, i >> : i \in 1..Len(obj_files_by_name[n]) } :
            n \in DOMAIN obj_files_by_name }

Entry(p) == obj_files_by_name[p[1]][p[2]]

\* All membership records, as << dgo, position >>.
Occurrences ==
  UNION { { << d, k >> : k \in 1..Len(obj_files_by_dgo[d]) } :
            d \in DOMAIN obj_files_by_dgo }

\* obj_files_by_name[obj_name]: operator[] yields an empty vector for a key
\* that is not in the map yet.
VariantsOf(obj_name) ==
  IF obj_name \in DOMAIN obj_files_by_name THEN obj_files_by_name[obj_name]
  ELSE << >>

MembersOf(dgo_name) ==
  IF dgo_name \in DOMAIN obj_files_by_dgo THEN obj_files_by_dgo[dgo_name]
  ELSE << >>

\* map[key] = value, inserting the key when it is new.
MapPut(m, key, value) ==
  [ k \in (DOMAIN m) \cup {key} |-> IF k = key THEN value ELSE m[k] ]

\* The members of a newly constructed ObjectFileDB.
EmptyDB ==
  /\ obj_files_by_name = << >>
  /\ obj_files_by_dgo = << >>
  /\ obj_file_order = << >>
  /\ stats = [ total_dgo_bytes |-> 0, total_obj_files |-> 0,
               unique_obj_files |-> 0, unique_obj_bytes |-> 0 ]
  /\ calls = << >>

\* No DGO file is being loaded.
NoLoad ==
  /\ pc = "idle"
  /\ dgo_data = << >>
  /\ seek = 0
  /\ decompressed_size = 0
  /\ decompressed_data = << >>
  /\ output_offset = 0
  /\ chunk_size = 0
  /\ wrote_outside = FALSE
  /\ read_outside = FALSE
  /\ source = [ kind |-> "none" ]

\* The reader of line 130 has not been made, no check has failed.
NoParse ==
  /\ reader_seek = 0
  /\ header_size = 0
  /\ obj_index = 0
  /\ failure = 0
  /\ name_overread = FALSE

\* The database is being built: no phase has run.
NoPhase ==
  /\ built = FALSE
  /\ linked_data = << >>
  /\ fatal = FALSE
  /\ listing = << >>
  /\ traversals = {}
  /\ out_of_order = FALSE

Init == EmptyDB /\ NoLoad /\ NoParse /\ dgo_base_name = "" /\ NoPhase

(***************************************************************************)
(* add_obj_from_dgo (lines 154-188).                                       *)
(***************************************************************************)
\* Line 164: the test that decides "already got it".
SameObject(e, obj_size, hash) ==
  Len(e.data) = obj_size /\ e.record.hash = hash

\* Lines 163-171: the index of the first variant that passes the test, 0 if
\* the loop ends without finding one.
FindExisting_lastOnly(obj_name, obj_size, hash) ==
  LET es == VariantsOf(obj_name)
  IN IF es # << >> /\ SameObject(es[Len(es)], obj_size, hash) THEN Len(es)
     ELSE 0

FindExisting(obj_name, obj_size, hash) ==
  LET es == VariantsOf(obj_name)
      hits == { i \in 1..Len(es) : SameObject(es[i], obj_size, hash) }
  IN IF hits = {} THEN 0 ELSE CHOOSE i \in hits : \A j \in hits : i <= j

\* Line 166: e.reference_count++.
BumpReference_none(e) == e

BumpReference(e) == [ e EXCEPT !.reference_count = @ + 1 ]

\* Line 167: auto rec = e.record.
DuplicateRecord_fresh(e) ==
  [ e.record EXCEPT !.version = Len(VariantsOf(e.record.name)) ]

DuplicateRecord(e) == e.record

\* Line 183: data.record.version = obj_files_by_name[obj_name].size().
NextVersion_afterInsert(obj_name) == Len(VariantsOf(obj_name)) + 1

NextVersion(obj_name) == Len(VariantsOf(obj_name))

\* Lines 174-178 and 183: the new ObjectFileData.
NewObjectFileData(obj_name, obj_data, obj_size, hash) ==
  [ data |-> SubSeq(obj_data, 1, obj_size),
    record |-> [ name |-> obj_name, hash |-> hash,
                 version |-> NextVersion(obj_name) ],
    reference_count |-> reference_count_initial ]

\* Lines 179-182: the name is added to the order the first time it is seen.
NextOrder_always(obj_name) == Append(obj_file_order, obj_name)

NextOrder(obj_name) ==
  IF VariantsOf(obj_name) = << >> THEN Append(obj_file_order, obj_name)
  ELSE obj_file_order

\* Lines 186-187: the counters of the new-object path.
CountUnique_noBytes(s, obj_size) == [ s EXCEPT !.unique_obj_files = @ + 1 ]

CountUnique(s, obj_size) ==
  [ s EXCEPT !.unique_obj_files = @ + 1, !.unique_obj_bytes = @ + obj_size ]

\* Line 158: stats.total_obj_files++.
CountTotal_alsoUnique(s) ==
  [ s EXCEPT !.total_obj_files = @ + 1, !.unique_obj_files = @ + 1 ]

CountTotal(s) == [ s EXCEPT !.total_obj_files = @ + 1 ]

add_obj_from_dgo(obj_name, obj_data, obj_size, dgo_name) ==
  LET hash == HashOf[obj_data]
      found == FindExisting(obj_name, obj_size, hash)
  IN /\ stats.total_obj_files < MaxInserts
     /\ calls' = Append(calls, [ obj_name |-> obj_name, obj_data |-> obj_data,
                                 obj_size |-> obj_size, dgo_name |-> dgo_name,
                                 path |-> IF found # 0 THEN "duplicate"
                                                       ELSE "new" ])
     /\ \/ /\ found # 0
           /\ obj_files_by_name' =
                [ obj_files_by_name EXCEPT
                    ![obj_name][found] = BumpReference(@) ]
           /\ obj_files_by_dgo' =
                MapPut(obj_files_by_dgo, dgo_name,
                       Append(MembersOf(dgo_name),
                              DuplicateRecord(obj_files_by_name[obj_name][found])))
           /\ stats' = CountTotal(stats)
           /\ UNCHANGED obj_file_order
        \/ /\ found = 0
           /\ LET data == NewObjectFileData(obj_name, obj_data, obj_size, hash)
              IN /\ obj_file_order' = NextOrder(obj_name)
                 /\ obj_files_by_dgo' =
                      MapPut(obj_files_by_dgo, dgo_name,
                             Append(MembersOf(dgo_name), data.record))
                 /\ obj_files_by_name' =
                      MapPut(obj_files_by_name, obj_name,
                             Append(VariantsOf(obj_name), data))
           /\ stats' = CountUnique(CountTotal(stats), obj_size)

Insert ==
  \E obj_name \in ObjNames, dgo_name \in DgoNames, obj_data \in Contents :
    /\ add_obj_from_dgo(obj_name, obj_data, Len(obj_data), dgo_name)
    /\ UNCHANGED << loader_vars, phase_vars >>

Next == Insert

Spec == Init /\ [][Next]_vars

(***************************************************************************)
(* Properties of the deduplication store, checked under Spec.              *)
(***************************************************************************)
\* The call of the step being taken (the last one logged).
ThisCall == calls'[Len(calls')]

\* The calls made for one DGO, in call order.
CallsOf(dgo_name) == SelectSeq(calls, LAMBDA c : c.dgo_name = dgo_name)

\* The stored entries a membership record names by (name, version).
EntriesNamedBy(rec) ==
  { p \in StoredEntries :
      p[1] = rec.name /\ Entry(p).record.version = rec.version }

\* The object names of a call sequence, each once, in first-seen order.
RECURSIVE FirstSeen(_, _)
FirstSeen(cs, seen) ==
  IF cs = << >> THEN << >>
  ELSE IF Head(cs).obj_name \in seen THEN FirstSeen(Tail(cs), seen)
  ELSE << Head(cs).obj_name >>
         \o FirstSeen(Tail(cs), seen \cup { Head(cs).obj_name })

MembershipLengths == [ d \in DOMAIN obj_files_by_dgo |-> Len(obj_files_by_dgo[d]) ]
EntrySizes == [ p \in StoredEntries |-> Len(Entry(p).data) ]
EntryReferences == [ p \in StoredEntries |-> Entry(p).reference_count ]

\* C1, step part: a call whose name, length and hash match a stored variant
\* adds no entry, adds exactly one to that variant's reference_count (and
\* nothing to any other), and appends that variant's record to the calling
\* DGO's membership list.
C1_DuplicateStep ==
  LET c == ThisCall
      es == VariantsOf(c.obj_name)
      hits == { i \in 1..Len(es) :
                  /\ Len(es[i].data) = c.obj_size
                  /\ es[i].record.hash = HashOf[c.obj_data] }
  IN hits # {} =>
       \E i \in hits :
         /\ DOMAIN obj_files_by_name' = DOMAIN obj_files_by_name
         /\ \A n \in DOMAIN obj_files_by_name :
              Len(obj_files_by_name'[n]) = Len(obj_files_by_name[n])
         /\ \A q \in StoredEntries :
              obj_files_by_name'[q[1]][q[2]].reference_count =
                Entry(q).reference_count
                  + (IF q = << c.obj_name, i >> THEN 1 ELSE 0)
         /\ c.dgo_name \in DOMAIN obj_files_by_dgo'
         /\ obj_files_by_dgo'[c.dgo_name] =
              Append(MembersOf(c.dgo_name), es[i].record)
         /\ es[i].record.name = c.obj_name

\* C1, scenario part: the same bytes under one name from two different DGOs
\* leave one entry, version 0, reference_count 2, and both membership lists
\* hold (name, 0).
C1_TwoArchives ==
  ( /\ Len(calls) = 2
    /\ calls[1].obj_name = calls[2].obj_name
    /\ calls[1].obj_data = calls[2].obj_data
    /\ calls[1].dgo_name # calls[2].dgo_name )
  => LET n == calls[1].obj_name
     IN /\ StoredEntries = { << n, 1 >> }
        /\ obj_files_by_name[n][1].record.version = 0
        /\ obj_files_by_name[n][1].reference_count = 2
        /\ \A k \in 1..2 :
             /\ Len(MembersOf(calls[k].dgo_name)) = 1
             /\ MembersOf(calls[k].dgo_name)[1].name = n
             /\ MembersOf(calls[k].dgo_name)[1].version = 0

\* C1: every duplicate insert only counts a reference and records the
\* membership; two DGOs with the same object share one entry (n, 0) with
\* reference_count 2.
C1_Duplicate == [][C1_DuplicateStep]_vars /\ []C1_TwoArchives

C1_Witness ==
  /\ Len(calls) = 2
  /\ calls[1].obj_name = calls[2].obj_name
  /\ calls[1].obj_data = calls[2].obj_data
  /\ calls[1].dgo_name # calls[2].dgo_name
  /\ calls[2].path = "duplicate"
  /\ obj_files_by_name[calls[1].obj_name][1].reference_count = 2

\* C2, state part: the variants of a name carry versions 0, 1, ..., n-1 in
\* list (first-insertion) order, and all unique names differ.
C2_VersionsDense ==
  /\ \A p \in StoredEntries :
       /\ Entry(p).record.version = p[2] - 1
       /\ Entry(p).record.name = p[1]
  /\ \A p, q \in StoredEntries :
       p # q => to_unique_name(Entry(p).record) # to_unique_name(Entry(q).record)

\* C2, step part: a new variant gets the number of variants stored for its
\* name before the call, and no call changes the version of a stored variant.
C2_VersionsStable ==
  /\ \A p \in StoredEntries :
       /\ p \in StoredEntries'
       /\ obj_files_by_name'[p[1]][p[2]].record.version = Entry(p).record.version
  /\ \A p \in StoredEntries' \ StoredEntries :
       obj_files_by_name'[p[1]][p[2]].record.version = Len(VariantsOf(p[1]))

\* C2: versions of a name are exactly 0..n-1 in insertion order, assigned
\* once and never changed; the name-v<version> strings are pairwise distinct.
C2_Versions == []C2_VersionsDense /\ [][C2_VersionsStable]_vars

C2_Witness ==
  \E n \in DOMAIN obj_files_by_name :
    /\ Len(obj_files_by_name[n]) = 3
    /\ obj_files_by_name[n][3].record.version = 2
    /\ to_unique_name(obj_files_by_name[n][3].record) = n \o "-v2"

\* C3: no two stored variants of one name agree in both length and hash, and
\* every (name, hash, size) ever passed to add_obj_from_dgo has exactly one
\* stored entry (and every entry was passed in).
C3_OneEntryPerTriple ==
  /\ \A p, q \in StoredEntries :
       (p # q /\ p[1] = q[1]) =>
         ~ ( /\ Len(Entry(p).data) = Len(Entry(q).data)
             /\ Entry(p).record.hash = Entry(q).record.hash )
  /\ \A k \in 1..Len(calls) :
       Cardinality({ p \in StoredEntries :
                       /\ p[1] = calls[k].obj_name
                       /\ Len(Entry(p).data) = calls[k].obj_size
                       /\ Entry(p).record.hash = HashOf[calls[k].obj_data] }) = 1
  /\ \A p \in StoredEntries :
       \E k \in 1..Len(calls) :
         /\ p[1] = calls[k].obj_name
         /\ Len(Entry(p).data) = calls[k].obj_size
         /\ Entry(p).record.hash = HashOf[calls[k].obj_data]

C3_Witness ==
  /\ Len(calls) = 3
  /\ calls[1].obj_name = calls[3].obj_name
  /\ calls[2].obj_name = calls[3].obj_name
  /\ calls[1].obj_data = calls[3].obj_data
  /\ calls[2].obj_data # calls[1].obj_data
  /\ Len(calls[2].obj_data) = Len(calls[1].obj_data)
  /\ Len(obj_files_by_name[calls[1].obj_name]) = 2

\* C4, state part: obj_file_order holds exactly the names with a stored
\* variant, each once, in the order of their first calls.
C4_OrderIsFirstSeen ==
  /\ Range(obj_file_order) = { n \in DOMAIN obj_files_by_name :
                                 obj_files_by_name[n] # << >> }
  /\ \A i, j \in 1..Len(obj_file_order) :
       i # j => obj_file_order[i] # obj_file_order[j]
  /\ obj_file_order = FirstSeen(calls, {})

\* C4, step part: positions are never reordered or removed, and a name is
\* appended exactly by the call that stores its first variant.
C4_OrderGrows ==
  /\ IsPrefix(obj_file_order, obj_file_order')
  /\ obj_file_order' # obj_file_order
       <=> ( VariantsOf(ThisCall.obj_name) = << >> /\ ThisCall.path = "new" )
  /\ obj_file_order' # obj_file_order
       => obj_file_order' = Append(obj_file_order, ThisCall.obj_name)

\* C4: the global insertion order lists each stored name once, in first-seen
\* order, and only ever grows at the end, at a name's first variant.
C4_InsertionOrder == []C4_OrderIsFirstSeen /\ [][C4_OrderGrows]_vars

C4_Witness ==
  /\ Len(calls) = 3
  /\ Len(obj_file_order) = 2
  /\ calls[1].obj_name = calls[3].obj_name
  /\ calls[3].path = "new"
  /\ calls[1].dgo_name # calls[2].dgo_name

\* C5: total_obj_files is the sum of the membership list lengths;
\* unique_obj_files is the number of stored entries and at most
\* total_obj_files; unique_obj_bytes is the sum of the entries' lengths.
C5_Statistics ==
  /\ stats.total_obj_files = SumOver(MembershipLengths, DOMAIN MembershipLengths)
  /\ stats.unique_obj_files = Cardinality(StoredEntries)
  /\ stats.unique_obj_files <= stats.total_obj_files
  /\ stats.unique_obj_bytes = SumOver(EntrySizes, StoredEntries)

C5_Witness ==
  /\ stats.total_obj_files = 3
  /\ stats.unique_obj_files = 2
  /\ stats.unique_obj_bytes = 6
  /\ Cardinality(DOMAIN obj_files_by_dgo) = 2

\* C6: an entry's reference_count is the number of membership records, over
\* all DGOs, that carry its (name, version); it is at least 1 and the
\* reference_counts add up to total_obj_files.
C6_ReferenceCounts ==
  /\ \A p \in StoredEntries :
       /\ Entry(p).reference_count =
            Cardinality({ o \in Occurrences :
                            /\ obj_files_by_dgo[o[1]][o[2]].name = p[1]
                            /\ obj_files_by_dgo[o[1]][o[2]].version
                                 = Entry(p).record.version })
       /\ Entry(p).reference_count >= 1
  /\ SumOver(EntryReferences, StoredEntries) = stats.total_obj_files

C6_Witness ==
  /\ Cardinality(StoredEntries) = 2
  /\ \E p \in StoredEntries : Entry(p).reference_count = 2
  /\ \E p \in StoredEntries : Entry(p).reference_count = 1

\* C7: for every occurrence in a DGO's membership list, the entry its
\* (name, version) names holds exactly the bytes that call passed in.
C7_ByteExactRetrieval ==
  \A o \in Occurrences :
    /\ o[2] <= Len(CallsOf(o[1]))
    /\ \A p \in EntriesNamedBy(obj_files_by_dgo[o[1]][o[2]]) :
         Entry(p).data = CallsOf(o[1])[o[2]].obj_data

\* C8, every call: the entries stored before it are still there, with the
\* same bytes and the same record.
C8_EntriesKept ==
  \A p \in StoredEntries :
    /\ p \in StoredEntries'
    /\ obj_files_by_name'[p[1]][p[2]].data = Entry(p).data
    /\ obj_files_by_name'[p[1]][p[2]].record = Entry(p).record

\* C8, duplicate path: no variant is added, and the order and the two
\* distinct-object counters stay as they were.
C8_DuplicateFrame ==
  ThisCall.path = "duplicate" =>
    /\ StoredEntries' = StoredEntries
    /\ DOMAIN obj_files_by_name' = DOMAIN obj_files_by_name
    /\ obj_file_order' = obj_file_order
    /\ stats'.unique_obj_files = stats.unique_obj_files
    /\ stats'.unique_obj_bytes = stats.unique_obj_bytes

\* C8: no call changes or removes the bytes or the record of a stored entry,
\* and a duplicate call leaves the variant lists' members, the insertion
\* order and the distinct-object counters alone.
C8_Frame == [][C8_EntriesKept /\ C8_DuplicateFrame]_vars

C8_Witness ==
  /\ Len(calls) = 3
  /\ calls[3].path = "duplicate"
  /\ Cardinality(StoredEntries) = 2
  /\ \E p \in StoredEntries : Entry(p).reference_count = 2


(***************************************************************************)
(* Byte vectors of a DGO (std::vector<uint8_t> dgo_data, decompressed_data)*)
(* are held in run-length form: a sequence of << count, byte >> runs, no   *)
(* count zero and no two neighbours of the same byte, so that equal        *)
(* vectors have equal forms and a 0x8000-byte block stays small.           *)
(***************************************************************************)
\* F(x), with x evaluated once whatever the number of its uses in F.
Once(F(_), x) == CHOOSE r \in { F(v) : v \in { x } } : TRUE

\* The vector itself, byte by byte.
RECURSIVE BytesFrom(_, _)
BytesFrom(v, k) ==
  IF k > Len(v) THEN << >>
  ELSE [ i \in 1..v[k][1] |-> v[k][2] ] \o BytesFrom(v, k + 1)

Bytes(v) == Once(LAMBDA runs : BytesFrom(runs, 1), v)

\* size().
RECURSIVE SizeFrom(_, _)
SizeFrom(v, k) == IF k > Len(v) THEN 0 ELSE v[k][1] + SizeFrom(v, k + 1)

Size(v) == Once(LAMBDA runs : SizeFrom(runs, 1), v)

\* n bytes of value `byte`.
Fill(n, byte) == IF n = 0 THEN << >> ELSE << << n, byte >> >>

\* a followed by b.
JoinRuns(a, b) ==
  IF a = << >> THEN b
  ELSE IF b = << >> THEN a
  ELSE IF a[Len(a)][2] = b[1][2]
    THEN SubSeq(a, 1, Len(a) - 1)
           \o << << a[Len(a)][1] + b[1][1], b[1][2] >> >> \o Tail(b)
  ELSE a \o b

Join(a, b) == Once(LAMBDA p : JoinRuns(p[1], p[2]), << a, b >>)

\* The last position of the run of equal bytes that starts at position i.
RunEnd(bytes, i) ==
  CHOOSE j \in i..Len(bytes) :
    /\ \A k \in i..j : bytes[k] = bytes[i]
    /\ j = Len(bytes) \/ bytes[j + 1] # bytes[i]

\* The run-length form of the bytes from position i on.
RECURSIVE PackedFrom(_, _)
PackedFrom(bytes, i) ==
  IF i > Len(bytes) THEN << >>
  ELSE Once(LAMBDA e : << << e - i + 1, bytes[i] >> >>
                         \o PackedFrom(bytes, e + 1),
            RunEnd(bytes, i))

Packed(bytes) == PackedFrom(bytes, 1)

\* v without its first n bytes, and the first n bytes of v.
RECURSIVE Drop(_, _)
Drop(v, n) ==
  IF n = 0 \/ v = << >> THEN v
  ELSE IF Head(v)[1] <= n THEN Drop(Tail(v), n - Head(v)[1])
  ELSE << << Head(v)[1] - n, Head(v)[2] >> >> \o Tail(v)

RECURSIVE Take(_, _)
Take(v, n) ==
  IF n = 0 \/ v = << >> THEN << >>
  ELSE IF Head(v)[1] <= n THEN << Head(v) >> \o Take(Tail(v), n - Head(v)[1])
  ELSE << << n, Head(v)[2] >> >>

\* The bytes at positions from..to (counted from 1).
Slice(v, from, to) ==
  IF to < from THEN << >>
  ELSE Once(LAMBDA rest : Take(rest, to - from + 1),
            Once(LAMBDA runs : Drop(runs, from - 1), v))

(***************************************************************************)
(* BinaryReader (util/BinaryReader.h): a forward-only reader over a byte   *)
(* buffer.  read<T> and ffwd fail when fewer bytes remain than asked for;  *)
(* here() is a pointer to the byte at the current position.                *)
(***************************************************************************)
\* The bytes left from position `at` of buffer `buf`.
bytes_left(buf, at) == Size(buf) - at

\* Whether read<T> (n = sizeof(T)) or ffwd(n) at position `at` stays inside.
InBounds(buf, at, n) == n <= bytes_left(buf, at)

\* The little-endian value of four bytes.
Word(b) == b[1] + 256 * b[2] + 65536 * b[3] + 16777216 * b[4]

\* read<uint32_t>: the little-endian word at position `at`.
ReadU32(buf, at) == Word(Bytes(Slice(buf, at + 1, at + 4)))

(***************************************************************************)
(* lzo1x_decompress (third-party/minilzo): the LZO1X decoder without       *)
(* bounds checks.  `in` is the whole input buffer, ip the 1-based index of *)
(* the next input byte, o the output vector up to the write position (the  *)
(* blocks written before this one included: a match may reach back into    *)
(* them).  The result is the position and output at the end marker, or     *)
(* "outside" when the decoder reads a byte beyond the input buffer or      *)
(* before the output vector.                                               *)
(***************************************************************************)
LzoOutside == [ status |-> "outside", ip |-> 0, out |-> << >> ]

\* while (*ip == 0) { t += 255; ip++; }  t += base + *ip++;
RECURSIVE LzoLongCount(_, _, _)
LzoLongCount(in, ip, t) ==
  IF ip > Len(in) THEN [ ok |-> FALSE, t |-> 0, ip |-> ip ]
  ELSE IF in[ip] = 0 THEN LzoLongCount(in, ip + 1, t + 255)
  ELSE [ ok |-> TRUE, t |-> t + in[ip], ip |-> ip + 1 ]

\* do *op++ = *m_pos++ while (--n > 0): a byte-wise copy that may overlap.
RECURSIVE LzoCopyMatch(_, _, _)
LzoCopyMatch(o, dist, n) ==
  IF n = 0 THEN o
  ELSE Once(LAMBDA next : LzoCopyMatch(next, dist, n - 1),
            Append(o, o[Len(o) + 1 - dist]))

RECURSIVE LzoRun(_, _, _, _, _)
LzoRun(in, label, ip, t, o) ==
  LET Has(n) == ip + n - 1 <= Len(in)
      Match(dist, n, next) ==
        IF dist > Len(o) THEN LzoOutside
        ELSE LzoRun(in, "match_done", next, 0, LzoCopyMatch(o, dist, n))
  IN
  CASE label = "begin" ->
         IF ~Has(1) THEN LzoOutside
         ELSE IF in[ip] > 17
           THEN LET n == in[ip] - 17
                IN IF n < 4 THEN LzoRun(in, "match_next", ip + 1, n, o)
                   ELSE IF ~Has(1 + n) THEN LzoOutside
                   ELSE LzoRun(in, "first_literal_run", ip + 1 + n, 0,
                               o \o SubSeq(in, ip + 1, ip + n))
           ELSE LzoRun(in, "loop", ip, 0, o)
    [] label = "loop" ->
         IF ~Has(1) THEN LzoOutside
         ELSE IF in[ip] >= 16 THEN LzoRun(in, "match", ip + 1, in[ip], o)
         ELSE LET r == IF in[ip] = 0 THEN LzoLongCount(in, ip + 1, 15)
                       ELSE [ ok |-> TRUE, t |-> in[ip], ip |-> ip + 1 ]
              IN IF ~r.ok \/ r.ip + r.t + 2 > Len(in) THEN LzoOutside
                 ELSE LzoRun(in, "first_literal_run", r.ip + r.t + 3, 0,
                             o \o SubSeq(in, r.ip, r.ip + r.t + 2))
    [] label = "first_literal_run" ->
         IF ~Has(1) THEN LzoOutside
         ELSE IF in[ip] >= 16 THEN LzoRun(in, "match", ip + 1, in[ip], o)
         ELSE IF ~Has(2) THEN LzoOutside
         ELSE Match(2049 + (in[ip] \div 4) + 4 * in[ip + 1], 3, ip + 2)
    [] label = "match" ->
         IF t >= 64 THEN
           IF ~Has(1) THEN LzoOutside
           ELSE Match(1 + ((t \div 4) % 8) + 8 * in[ip], (t \div 32) + 1, ip + 1)
         ELSE IF t >= 32 THEN
           LET r == IF t % 32 = 0 THEN LzoLongCount(in, ip, 31)
                    ELSE [ ok |-> TRUE, t |-> t % 32, ip |-> ip ]
           IN IF ~r.ok \/ r.ip + 1 > Len(in) THEN LzoOutside
              ELSE Match(1 + (in[r.ip] \div 4) + 64 * in[r.ip + 1], r.t + 2,
                         r.ip + 2)
         ELSE IF t >= 16 THEN
           LET r == IF t % 8 = 0 THEN LzoLongCount(in, ip, 7)
                    ELSE [ ok |-> TRUE, t |-> t % 8, ip |-> ip ]
               d == ((t \div 8) % 2) * 16384
                      + (in[r.ip] \div 4) + 64 * in[r.ip + 1]
           IN IF ~r.ok \/ r.ip + 1 > Len(in) THEN LzoOutside
              ELSE IF d = 0
                THEN [ status |-> "eof", ip |-> r.ip + 2, out |-> o ]
              ELSE Match(d + 16384, r.t + 2, r.ip + 2)
         ELSE
           IF ~Has(1) THEN LzoOutside
           ELSE Match(1 + (t \div 4) + 4 * in[ip], 2, ip + 1)
    [] label = "match_done" ->
         IF in[ip - 2] % 4 = 0 THEN LzoRun(in, "loop", ip, 0, o)
         ELSE LzoRun(in, "match_next", ip, in[ip - 2] % 4, o)
    [] label = "match_next" ->
         IF ~Has(t + 1) THEN LzoOutside
         ELSE LzoRun(in, "match", ip + t + 1, in[ip + t],
                     o \o SubSeq(in, ip, ip + t - 1))

\* lzo1x_decompress(src, src_len, dst, &dst_len, NULL) with src at position
\* `at` of `in` and dst at offset `offset` of the output vector `out`:
\* the return value and the bytes the decoder put at dst.
LzoResult(r, at, src_len, offset) ==
  IF r.status = "outside" THEN [ rv |-> "outside", written |-> << >> ]
  ELSE [ rv |-> IF r.ip = at + 1 + src_len THEN "LZO_E_OK"
                ELSE IF r.ip < at + 1 + src_len
                  THEN "LZO_E_INPUT_NOT_CONSUMED"
                ELSE "LZO_E_INPUT_OVERRUN",
         written |-> SubSeq(r.out, offset + 1, Len(r.out)) ]

lzo1x_decompress(in, at, src_len, out, offset) ==
  Once(LAMBDA r : LzoResult(r, at, src_len, offset),
       Once(LAMBDA p : LzoRun(p[1], "begin", at + 1, 0, p[2]),
            << in, SubSeq(out, 1, offset) >>))


(***************************************************************************)
(* DGO files given to get_objs_from_dgo.                                   *)
(***************************************************************************)
MAX_CHUNK_SIZE == 32768

\* jak2_header: "oZlB".
Jak2Header == << 111, 90, 108, 66 >>

U32LE(n) ==
  Packed(<< n % 256, (n \div 256) % 256, (n \div 65536) % 256,
            n \div 16777216 >>)

\* Zero bytes up to the next multiple of four.
Pad4(v) == Join(v, Fill((4 - (Size(v) % 4)) % 4, 0))

\* 0x8000 bytes: three bytes counting up from `mark`, a run of 170, and two
\* more bytes counting on.
LiteralBytes(mark) ==
  Join(Packed(<< mark + 1, mark + 2, mark + 3 >>),
       Join(Fill(MAX_CHUNK_SIZE - 5, 170), Packed(<< mark + 4, mark + 5 >>)))

\* Blocks of a compressed DGO: the chunk size word, the bytes that follow it
\* and the bytes the block stands for.  The lzo payloads are LZO1X streams:
\* a literal run of 3, a literal run of 5, a literal run of 4 followed by a
\* match of 4 at distance 1, and an empty stream.  The literal blocks have a
\* chunk size of exactly 0x8000, and one above it (0x12345).
Block ==
  [ BlockLzo3 |->
      [ word |-> 7, payload |-> Packed(<< 20, 10, 11, 12, 17, 0, 0 >>),
        plain |-> Packed(<< 10, 11, 12 >>) ],
    BlockLzo5 |->
      [ word |-> 9, payload |-> Packed(<< 22, 1, 2, 3, 4, 5, 17, 0, 0 >>),
        plain |-> Packed(<< 1, 2, 3, 4, 5 >>) ],
    BlockLzoMatch |->
      [ word |-> 10,
        payload |-> Packed(<< 21, 7, 7, 7, 7, 96, 0, 17, 0, 0 >>),
        plain |-> Fill(8, 7) ],
    BlockLzoEmpty |->
      [ word |-> 3, payload |-> Packed(<< 17, 0, 0 >>), plain |-> << >> ],
    BlockLiteral |->
      [ word |-> MAX_CHUNK_SIZE, payload |-> LiteralBytes(1),
        plain |-> LiteralBytes(1) ],
    BlockLiteralOver |->
      [ word |-> 74565, payload |-> LiteralBytes(50),
        plain |-> LiteralBytes(50) ] ]

BlockKinds == DOMAIN Block

BlockSeqs == UNION { [ 1..n -> BlockKinds ] : n \in 0..MaxBlocks }

\* The bytes the blocks stand for, one after the other.
RECURSIVE Original(_)
Original(blocks) ==
  IF blocks = << >> THEN << >>
  ELSE Join(Block[Head(blocks)].plain, Original(Tail(blocks)))

\* The blocks after the bytes v, each at the next 4-byte aligned position.
RECURSIVE WithBlocks(_, _)
WithBlocks(v, blocks) ==
  IF blocks = << >> THEN v
  ELSE WithBlocks(Join(Pad4(v), Join(U32LE(Block[Head(blocks)].word),
                                     Block[Head(blocks)].payload)),
                  Tail(blocks))

\* A compressed DGO: "oZlB", the size word, the blocks.
CompressedDgo(total, blocks) ==
  WithBlocks(Join(Packed(Jak2Header), U32LE(total)), blocks)

\* The DGOs of the round trip: any blocks, the size word being the length of
\* what they stand for.
RoundTripInputs ==
  { [ kind |-> "roundtrip", blocks |-> bs,
      data |-> CompressedDgo(Size(Original(bs)), bs) ] : bs \in BlockSeqs }

\* Size word 40, a literal-flagged block, then a compressed block: once with
\* a full 0x8000-byte literal payload, once with the 32 bytes that would
\* leave 8 for the compressed block.
ScenarioInputs ==
  { [ kind |-> "scenario", blocks |-> << "BlockLiteral", "BlockLzoMatch" >>,
      data |-> CompressedDgo(40, << "BlockLiteral", "BlockLzoMatch" >>) ],
    [ kind |-> "scenario_short", blocks |-> << "BlockLzoMatch" >>,
      data |-> WithBlocks(Join(CompressedDgo(40, << >>),
                               Join(U32LE(MAX_CHUNK_SIZE),
                                    Slice(LiteralBytes(1), 1, 32))),
                          << "BlockLzoMatch" >>) ] }

\* DGOs that end in the middle of a block: a literal block with 32 of its
\* 0x8000 bytes, and a compressed block with 3 of its 7 bytes.  The size
\* word is the size of what the whole block stands for.
TruncatedInputs ==
  { [ kind |-> "truncated", blocks |-> << "BlockLiteral" >>,
      data |-> Join(CompressedDgo(MAX_CHUNK_SIZE, << >>),
                    Join(U32LE(MAX_CHUNK_SIZE),
                         Slice(LiteralBytes(1), 1, 32))) ],
    [ kind |-> "truncated", blocks |-> << "BlockLzo3" >>,
      data |-> Join(CompressedDgo(3, << >>),
                    Join(U32LE(7), Packed(<< 20, 10, 11 >>))) ] }

\* Two blocks with a whole zero word between them, and a DGO that is not
\* compressed (an object count of 0 and a 60-byte name field).
OtherInputs ==
  { [ kind |-> "gap", blocks |-> << "BlockLzo3", "BlockLzo5" >>,
      data |-> WithBlocks(Join(CompressedDgo(8, << "BlockLzo3" >>), Fill(5, 0)),
                          << "BlockLzo5" >>) ],
    [ kind |-> "raw", blocks |-> << >>,
      data |-> Join(U32LE(0),
                    Join(Packed(<< 65, 46, 68, 71, 79 >>), Fill(55, 0))) ] }

DgoInputs ==
  RoundTripInputs \cup ScenarioInputs \cup TruncatedInputs \cup OtherInputs

(***************************************************************************)
(* get_objs_from_dgo, lines 75-128: reading the file and expanding it.     *)
(***************************************************************************)
\* A DGO file has been read (line 76) into an empty database.
InitLoad ==
  /\ EmptyDB
  /\ \E input \in DgoInputs :
       /\ dgo_data = input.data
       /\ source = [ kind |-> input.kind, blocks |-> input.blocks ]
  /\ pc = "start"
  /\ seek = 0
  /\ decompressed_size = 0
  /\ decompressed_data = << >>
  /\ output_offset = 0
  /\ chunk_size = 0
  /\ wrote_outside = FALSE
  /\ read_outside = FALSE
  /\ NoParse
  /\ dgo_base_name = "main.dgo"
  /\ NoPhase

\* Lines 79-85.
is_jak2 == Bytes(Slice(dgo_data, 1, 4)) = Jak2Header

\* Line 77: stats.total_dgo_bytes += dgo_data.size().
CountDgoBytes_none(s) == s

CountDgoBytes(s) == [ s EXCEPT !.total_dgo_bytes = @ + Size(dgo_data) ]

\* Lines 76-97: count the bytes, test the header, and for a compressed DGO
\* skip the header, read the size and size the output vector.
CheckHeader ==
  /\ pc = "start"
  /\ stats' = CountDgoBytes(stats)
  /\ IF ~is_jak2
       THEN /\ pc' = "parse"
            /\ UNCHANGED << seek, decompressed_size, decompressed_data >>
     ELSE IF ~InBounds(dgo_data, 4, 4)
       THEN /\ pc' = "failed"
            /\ seek' = 4
            /\ UNCHANGED << decompressed_size, decompressed_data >>
     ELSE /\ pc' = "chunk_size"
          /\ seek' = 8
          /\ decompressed_size' = ReadU32(dgo_data, 4)
          /\ decompressed_data' = Fill(ReadU32(dgo_data, 4), 0)
  /\ UNCHANGED << store_vars, dgo_data, output_offset, chunk_size,
                  wrote_outside, read_outside, source, parse_vars, phase_vars >>

\* Lines 100-103, one turn of the inner loop: read a word; zero is padding.
ReadChunkSize ==
  /\ pc = "chunk_size"
  /\ IF ~InBounds(dgo_data, seek, 4)
       THEN pc' = "failed" /\ UNCHANGED << seek, chunk_size >>
     ELSE /\ chunk_size' = ReadU32(dgo_data, seek)
          /\ seek' = seek + 4
          /\ pc' = IF ReadU32(dgo_data, seek) = 0 THEN "chunk_size"
                   ELSE "block"
  /\ UNCHANGED << store_vars, stats, dgo_data, decompressed_size,
                  decompressed_data, output_offset, wrote_outside,
                  read_outside, source, parse_vars, phase_vars >>

\* The output vector after the n bytes of `piece` are written at `offset`;
\* what falls past its end does not land in the vector.
WriteAt(out, offset, piece, n) ==
  IF n = 0 \/ offset >= Size(out) THEN out
  ELSE LET last == IF offset + n <= Size(out) THEN offset + n ELSE Size(out)
       IN Join(Slice(out, 1, offset),
               Join(Slice(piece, 1, last - offset),
                    Slice(out, last + 1, Size(out))))

\* Lines 116-118: the number of bytes a literal block copies and skips.
LiteralLength_nominal(size) == size

LiteralLength(size) == MAX_CHUNK_SIZE

\* Lines 112 and 118: where the next block goes.
NextOffset(offset, n) == offset + n

\* Lines 105-112: a compressed block.  The decoder checks neither buffer:
\* reading past the input or writing past the output is undefined, and the
\* run may end there (crash) or go on.
DecompressChunk ==
  /\ pc = "block"
  /\ chunk_size < MAX_CHUNK_SIZE
  /\ \E r \in { lzo1x_decompress(Bytes(dgo_data), seek, chunk_size,
                                 Bytes(decompressed_data), output_offset) } :
     LET bytes_written == Len(r.written)
         reads_out == r.rv = "outside"
         writes_out == output_offset + bytes_written > decompressed_size
     IN \E crash \in BOOLEAN :
          /\ crash => (reads_out \/ writes_out)
          /\ read_outside' = (read_outside \/ reads_out)
          /\ wrote_outside' = (wrote_outside \/ writes_out)
          /\ decompressed_data' =
               WriteAt(decompressed_data, output_offset, Packed(r.written),
                       bytes_written)
          /\ IF crash
               THEN pc' = "crashed" /\ UNCHANGED << seek, output_offset >>
             ELSE IF r.rv # "LZO_E_OK"
               THEN pc' = "failed" /\ UNCHANGED << seek, output_offset >>
             ELSE IF ~InBounds(dgo_data, seek, chunk_size)
               THEN pc' = "failed" /\ UNCHANGED << seek, output_offset >>
             ELSE /\ pc' = "check"
                  /\ seek' = seek + chunk_size
                  /\ output_offset' = NextOffset(output_offset, bytes_written)
  /\ UNCHANGED << store_vars, stats, dgo_data, decompressed_size, chunk_size,
                  source, parse_vars, phase_vars >>

\* Lines 113-119: a literal block; memcpy checks neither buffer.  Bytes
\* taken from past the input are whatever is there (0 or 255 here).
CopyChunk ==
  /\ pc = "block"
  /\ chunk_size >= MAX_CHUNK_SIZE
  /\ LET n == LiteralLength(chunk_size)
         reads_out == ~InBounds(dgo_data, seek, n)
         writes_out == output_offset + n > decompressed_size
     IN \E crash \in BOOLEAN, junk \in { 0, 255 } :
          /\ crash => (reads_out \/ writes_out)
          /\ (junk # 0) => (reads_out /\ ~crash)
          /\ read_outside' = (read_outside \/ reads_out)
          /\ wrote_outside' = (wrote_outside \/ writes_out)
          /\ decompressed_data' =
               WriteAt(decompressed_data, output_offset,
                       IF reads_out
                         THEN Join(Slice(dgo_data, seek + 1, Size(dgo_data)),
                                   Fill(n - bytes_left(dgo_data, seek), junk))
                       ELSE Slice(dgo_data, seek + 1, seek + n),
                       n)
          /\ IF crash
               THEN pc' = "crashed" /\ UNCHANGED << seek, output_offset >>
             ELSE IF reads_out
               THEN pc' = "failed" /\ UNCHANGED << seek, output_offset >>
             ELSE /\ pc' = "check"
                  /\ seek' = seek + n
                  /\ output_offset' = NextOffset(output_offset, n)
  /\ UNCHANGED << store_vars, stats, dgo_data, decompressed_size, chunk_size,
                  source, parse_vars, phase_vars >>

\* Lines 123-125: the position after the alignment bytes.
AlignedSeek_down(at) == at - (at % 4)

AlignedSeek(at) == at + ((4 - (at % 4)) % 4)

\* Lines 121-127: leave the loop when the output is full, and hand the
\* output on as dgo_data; otherwise skip to the next 4-byte boundary.
CheckDone ==
  /\ pc = "check"
  /\ IF output_offset >= decompressed_size
       THEN /\ pc' = "parse"
            /\ dgo_data' = decompressed_data
            /\ UNCHANGED seek
     ELSE IF AlignedSeek(seek) > Size(dgo_data)
       THEN /\ pc' = "failed"
            /\ seek' = Size(dgo_data)
            /\ UNCHANGED dgo_data
     ELSE /\ pc' = "chunk_size"
          /\ seek' = AlignedSeek(seek)
          /\ UNCHANGED dgo_data
  /\ UNCHANGED << store_vars, stats, decompressed_size, decompressed_data,
                  output_offset, chunk_size, wrote_outside, read_outside,
                  source, parse_vars, phase_vars >>

NextLoad ==
  \/ CheckHeader
  \/ ReadChunkSize
  \/ DecompressChunk
  \/ CopyChunk
  \/ CheckDone

SpecDecomp == InitLoad /\ [][NextLoad]_vars


(***************************************************************************)
(* Properties of the decompression loop, checked under SpecDecomp.         *)
(***************************************************************************)
InChunkLoop == pc \in { "chunk_size", "block", "check" }

\* The run neither fails nor crashes, what has been written so far is the
\* start of the original buffer, and the result handed on is the original.
RoundTripHolds ==
  LET original == Original(source.blocks)
  IN /\ pc \notin { "failed", "crashed" }
     /\ InChunkLoop =>
          /\ output_offset <= Size(original)
          /\ decompressed_size = Size(original)
          /\ Slice(decompressed_data, 1, output_offset)
               = Slice(original, 1, output_offset)
     /\ pc = "parse" => dgo_data = original

\* C9 as stated: every DGO built from magic, size and any sequence of
\* compressed and literal blocks is expanded to exactly the bytes the blocks
\* stand for, each block placed at the running output_offset.
C9_RoundTripAnyBlocks ==
  source.kind = "roundtrip" => RoundTripHolds

\* C9, amended: the same for every such DGO that holds at least one block.
C9_RoundTrip ==
  (source.kind = "roundtrip" /\ source.blocks # << >>) => RoundTripHolds

C9_Witness ==
  /\ pc = "parse"
  /\ source.kind = "roundtrip"
  /\ source.blocks = << "BlockLzo3", "BlockLiteralOver" >>
  /\ Size(dgo_data) = 3 + MAX_CHUNK_SIZE
  /\ Bytes(Slice(dgo_data, 1, 5)) = << 10, 11, 12, 51, 52 >>

\* C10: output_offset never exceeds total_decompressed_size inside the chunk
\* loop, no block write goes past the output vector, and a compressed DGO is
\* handed on with exactly total_decompressed_size bytes.
C10_StaysInsideOutput ==
  /\ InChunkLoop => output_offset <= decompressed_size
  /\ ~wrote_outside
  /\ (pc = "parse" /\ source.kind # "raw")
       => Size(dgo_data) = decompressed_size

\* The bytes of the block at the reader's position: chunk_size bytes of a
\* compressed block, 0x8000 bytes of a literal block.
BlockExtent == IF chunk_size < MAX_CHUNK_SIZE THEN chunk_size ELSE MAX_CHUNK_SIZE

BlockTooLong == pc = "block" /\ ~InBounds(dgo_data, seek, BlockExtent)

\* C11: no byte past the end of the input is ever read, and a block whose
\* extent exceeds the bytes left in the input makes the run fail with the
\* output as it was before that block.
C11_NeverReadsPastInput ==
  /\ []~read_outside
  /\ [][BlockTooLong => (pc' = "failed" /\ UNCHANGED decompressed_data)]_vars

(***************************************************************************)
(* Termination of the chunk loop.  get_objs_from_dgo runs to its end once  *)
(* called: every step that can be taken is taken.                          *)
(***************************************************************************)
SpecDecompFair == SpecDecomp /\ WF_vars(NextLoad)

LoopLeft == pc \in { "parse", "failed", "crashed" }

\* C20: the chunk loop always ends, by output_offset reaching
\* decompressed_size or by a failure: every chunk size word read moves the
\* reader on by 4 bytes and the reader never moves back, also for a block
\* that expands to nothing and for a size word of 0.
C20_LoopTerminates ==
  /\ <>LoopLeft
  /\ [][(pc = "chunk_size" /\ pc' # "failed") => seek' = seek + 4]_vars
  /\ [][InChunkLoop => seek' >= seek]_vars

C20_Witness ==
  /\ pc = "parse"
  /\ source.kind = "roundtrip"
  /\ source.blocks = << "BlockLzoEmpty", "BlockLzo3" >>
  /\ output_offset = 3
  /\ seek = 27

(***************************************************************************)
(* get_objs_from_dgo, lines 130-149: the DGO header and the object files.  *)
(***************************************************************************)
\* Objects in a generated DGO.
MaxObjects == 2

\* struct DgoHeader (lines 50-53): uint32_t size; char name[60].
NameFieldSize == 60

DgoHeaderSize == 4 + NameFieldSize

\* The names that occur, with their characters.
LongName == "xxxxxxxxxxxxxxxxxxxxxxxxxxxxxxxxxxxxxxxxxxxxxxxxxxxxxxxxxxxx"

CharsOf ==
  ("a.o" :> << 97, 46, 111 >>)
    @@ ("a.o-v1" :> << 97, 46, 111, 45, 118, 49 >>)
    @@ ("main.dgo" :> << 109, 97, 105, 110, 46, 100, 103, 111 >>)
    @@ ("game.dgo" :> << 103, 97, 109, 101, 46, 100, 103, 111 >>)
    @@ (LongName :> [ i \in 1..NameFieldSize |-> 120 ])
    @@ (LongName \o "x" :> [ i \in 1..(NameFieldSize + 1) |-> 120 ])

\* The std::string made of the characters `chars`.
NameOf(chars) ==
  IF \E n \in DOMAIN CharsOf : CharsOf[n] = chars
    THEN CHOOSE n \in DOMAIN CharsOf : CharsOf[n] = chars
  ELSE "(another name)"

\* The position of the first zero byte of mem.
FirstNul(mem) ==
  CHOOSE i \in 1..Len(mem) : mem[i] = 0 /\ \A j \in 1..(i - 1) : mem[j] # 0

\* The C string that starts at mem[1]: the bytes before the first zero.
CString(mem) == SubSeq(mem, 1, FirstNul(mem) - 1)

\* A name field without a zero byte: reading it as a C string goes on into
\* whatever follows the struct.
Unterminated(field) == \A i \in 1..Len(field) : field[i] # 0

\* What may follow a DgoHeader held in a local variable: a zero byte, or an
\* 'x' and then a zero byte.
StackAfter == { << 0 >>, << 120, 0 >> }

\* Lines 60-68: no assertion fails.  mem is the memory from str on; the
\* first loop stops at the first zero byte, wherever it is, and the second
\* tests the bytes from there up to str + size.
assert_string_empty_after(mem, size) ==
  \A i \in FirstNul(mem)..size : mem[i] = 0

\* Line 140: assert(reader.bytes_left() >= obj_header.size).
EnoughBytes(left, size) == left >= size

\* Line 148: assert(0 == reader.bytes_left()).
AtEnd_always(left) == TRUE

AtEnd(left) == 0 = left

\* read<DgoHeader>() at position `at`: the name field.
NameField(buf, at) == Bytes(Slice(buf, at + 5, at + DgoHeaderSize))

\* The variables of the decompression loop.
chunk_loop_vars ==
  << dgo_data, seek, decompressed_size, decompressed_data, output_offset,
     chunk_size, wrote_outside, read_outside, source >>

\* Lines 130-135: the header of the DGO.
ReadDgoHeader ==
  /\ pc = "parse"
  /\ IF ~InBounds(dgo_data, reader_seek, DgoHeaderSize)
       THEN /\ pc' = "failed"
            /\ failure' = 131
            /\ UNCHANGED << reader_seek, header_size, name_overread >>
     ELSE \E after \in StackAfter :
            LET field == NameField(dgo_data, reader_seek)
                mem == field \o after
            IN /\ (after # << 0 >>) => Unterminated(field)
               /\ name_overread' = (name_overread \/ Unterminated(field))
               /\ reader_seek' = reader_seek + DgoHeaderSize
               /\ IF NameOf(CString(mem)) # dgo_base_name
                    THEN /\ pc' = "failed"
                         /\ failure' = 134
                         /\ UNCHANGED header_size
                  ELSE IF ~assert_string_empty_after(mem, NameFieldSize)
                    THEN /\ pc' = "failed"
                         /\ failure' = 135
                         /\ UNCHANGED header_size
                  ELSE /\ pc' = "objects"
                       /\ failure' = 0
                       /\ header_size' = ReadU32(dgo_data, reader_seek)
  /\ UNCHANGED << store_vars, stats, chunk_loop_vars, phase_vars,
                  dgo_base_name,
                  obj_index >>

\* Lines 138-145, one turn of the loop: the header of an object, the checks
\* and the call of add_obj_from_dgo.
ReadObject ==
  /\ pc = "objects"
  /\ obj_index < header_size
  /\ IF ~InBounds(dgo_data, reader_seek, DgoHeaderSize)
       THEN /\ pc' = "failed"
            /\ failure' = 139
            /\ UNCHANGED << store_vars, stats, reader_seek, obj_index,
                            name_overread >>
     ELSE IF ~EnoughBytes(bytes_left(dgo_data, reader_seek + DgoHeaderSize),
                          ReadU32(dgo_data, reader_seek))
       THEN /\ pc' = "failed"
            /\ failure' = 140
            /\ reader_seek' = reader_seek + DgoHeaderSize
            /\ UNCHANGED << store_vars, stats, obj_index, name_overread >>
     ELSE \E after \in StackAfter :
            LET field == NameField(dgo_data, reader_seek)
                mem == field \o after
                obj_size == ReadU32(dgo_data, reader_seek)
                here == reader_seek + DgoHeaderSize
            IN /\ (after # << 0 >>) => Unterminated(field)
               /\ name_overread' = (name_overread \/ Unterminated(field))
               /\ IF ~assert_string_empty_after(mem, NameFieldSize)
                    THEN /\ pc' = "failed"
                         /\ failure' = 141
                         /\ reader_seek' = here
                         /\ UNCHANGED << store_vars, stats, obj_index >>
                  ELSE /\ add_obj_from_dgo(
                            NameOf(CString(mem)),
                            Bytes(Slice(dgo_data, here + 1, here + obj_size)),
                            obj_size, dgo_base_name)
                       /\ reader_seek' = here + obj_size
                       /\ obj_index' = obj_index + 1
                       /\ pc' = "objects"
                       /\ failure' = 0
  /\ UNCHANGED << chunk_loop_vars, phase_vars,
                  dgo_base_name, header_size >>

\* Line 148: the check after the last object.
CheckEnd ==
  /\ pc = "objects"
  /\ obj_index >= header_size
  /\ IF AtEnd(bytes_left(dgo_data, reader_seek))
       THEN pc' = "done" /\ failure' = 0
     ELSE pc' = "failed" /\ failure' = 148
  /\ UNCHANGED << store_vars, stats, chunk_loop_vars, phase_vars,
                  dgo_base_name,
                  reader_seek, header_size, obj_index, name_overread >>

(***************************************************************************)
(* DGO files with a header and object files.                               *)
(***************************************************************************)
\* A 60-byte name field holding `chars`, and a DgoHeader.
NameFieldOf(chars) ==
  Join(Packed(chars), Fill(NameFieldSize - Len(chars), 0))

HeaderOf(size, chars) == Join(U32LE(size), NameFieldOf(chars))

\* A name field with a nonzero byte after the terminator.
DirtyFieldOf(chars) ==
  Join(Packed(chars),
       Join(Fill(3, 0), Join(Packed(<< 33 >>),
                             Fill(NameFieldSize - Len(chars) - 4, 0))))

\* Object files: a name and the bytes.
Items ==
  { [ name |-> "a.o", data |-> ContentA ],
    [ name |-> "a.o", data |-> ContentB ],
    [ name |-> "a.o", data |-> ContentE ],
    [ name |-> "a.o-v1", data |-> ContentD ] }

ItemSeqs == UNION { [ 1..n -> Items ] : n \in 0..MaxObjects }

\* The object files one after the other, each behind its header.
RECURSIVE ObjectsOf(_)
ObjectsOf(items) ==
  IF items = << >> THEN << >>
  ELSE Join(HeaderOf(Len(Head(items).data), CharsOf[Head(items).name]),
            Join(Packed(Head(items).data), ObjectsOf(Tail(items))))

\* A DGO named `name` that says it holds `count` objects.
Container(name, count, items) ==
  Join(HeaderOf(count, CharsOf[name]), ObjectsOf(items))

ItemA == [ name |-> "a.o", data |-> ContentA ]

ItemD == [ name |-> "a.o-v1", data |-> ContentD ]

\* Well-formed DGOs called main.dgo.
ValidFiles ==
  { [ kind |-> "valid", data |-> Container("main.dgo", Len(items), items) ] :
      items \in ItemSeqs }

\* DGOs that one of the checks of lines 131-148 is there for.
MalformedFiles ==
  { [ kind |-> "short", data |-> Packed(<< 1, 0, 0, 0, 109, 97, 105, 110 >>) ],
    [ kind |-> "other_name",
      data |-> Container("game.dgo", 1, << ItemA >>) ],
    [ kind |-> "dirty_dgo_name",
      data |-> Join(Join(U32LE(1), DirtyFieldOf(CharsOf["main.dgo"])),
                    ObjectsOf(<< ItemA >>)) ],
    [ kind |-> "unterminated_dgo_name",
      data |-> Container(LongName, 1, << ItemA >>) ],
    [ kind |-> "dirty_first_name",
      data |-> Join(HeaderOf(1, CharsOf["main.dgo"]),
                    Join(Join(U32LE(1), DirtyFieldOf(CharsOf["a.o"])),
                         Packed(ContentD))) ],
    [ kind |-> "dirty_second_name",
      data |-> Join(Container("main.dgo", 2, << ItemA >>),
                    Join(Join(U32LE(1), DirtyFieldOf(CharsOf["a.o"])),
                         Packed(ContentD))) ],
    [ kind |-> "unterminated_name",
      data |-> Join(HeaderOf(1, CharsOf["main.dgo"]),
                    Join(HeaderOf(1, CharsOf[LongName]), Packed(ContentD))) ],
    [ kind |-> "truncated_first",
      data |-> Join(HeaderOf(1, CharsOf["main.dgo"]),
                    Join(HeaderOf(5, CharsOf["a.o"]), Packed(<< 1, 2, 3 >>))) ],
    [ kind |-> "truncated_second",
      data |-> Join(Container("main.dgo", 2, << ItemD >>),
                    Join(HeaderOf(5, CharsOf["a.o"]), Packed(<< 1, 2, 3 >>))) ],
    [ kind |-> "trailing",
      data |-> Join(Container("main.dgo", 1, << ItemA >>), Fill(2, 0)) ],
    [ kind |-> "trailing_empty",
      data |-> Join(Container("main.dgo", 0, << >>), Fill(1, 9)) ],
    [ kind |-> "count_too_small",
      data |-> Container("main.dgo", 1, << ItemA, ItemD >>) ],
    [ kind |-> "count_too_large",
      data |-> Container("main.dgo", 2, << ItemA >>) ] }

\* The bytes `plain` as one compressed block (an LZO1X literal run and the
\* end marker) of a compressed DGO.
CompressedOf(plain) ==
  Join(Packed(Jak2Header),
       Join(U32LE(Size(plain)),
            Join(U32LE(Size(plain) + 4),
                 Join(Packed(<< 17 + Size(plain) >>),
                      Join(plain, Packed(<< 17, 0, 0 >>))))))

CompressedFiles ==
  { [ kind |-> "valid_compressed",
      data |-> CompressedOf(Container("main.dgo", 1, << ItemD >>)) ],
    [ kind |-> "trailing_compressed",
      data |-> CompressedOf(Join(Container("main.dgo", 1, << ItemD >>),
                                 Fill(2, 0))) ],
    [ kind |-> "literal",
      data |-> CompressedDgo(MAX_CHUNK_SIZE, << "BlockLiteral" >>) ] }

DgoFiles == ValidFiles \cup MalformedFiles \cup CompressedFiles

\* get_objs_from_dgo("main.dgo") on an empty database.
InitDgo ==
  /\ EmptyDB
  /\ \E file \in DgoFiles :
       /\ dgo_data = file.data
       /\ source = [ kind |-> file.kind, blocks |-> << >> ]
  /\ pc = "start"
  /\ seek = 0
  /\ decompressed_size = 0
  /\ decompressed_data = << >>
  /\ output_offset = 0
  /\ chunk_size = 0
  /\ wrote_outside = FALSE
  /\ read_outside = FALSE
  /\ NoParse
  /\ dgo_base_name = "main.dgo"
  /\ NoPhase

NextDgo ==
  \/ NextLoad
  \/ ReadDgoHeader
  \/ ReadObject
  \/ CheckEnd

SpecDgo == InitDgo /\ [][NextDgo]_vars


(***************************************************************************)
(* Properties of the container parser, checked under SpecDgo.              *)
(***************************************************************************)
\* A header is about to be read, and all its 64 bytes are there.
DgoHeaderAtReader ==
  pc = "parse" /\ InBounds(dgo_data, reader_seek, DgoHeaderSize)

ObjectHeaderAtReader ==
  /\ pc = "objects"
  /\ obj_index < header_size
  /\ InBounds(dgo_data, reader_seek, DgoHeaderSize)

\* The object header at the reader declares more bytes than follow it.
TooLong ==
  /\ ObjectHeaderAtReader
  /\ ReadU32(dgo_data, reader_seek)
       > bytes_left(dgo_data, reader_seek + DgoHeaderSize)

\* All objects have been read and bytes are left.
Leftover ==
  /\ pc = "objects"
  /\ obj_index >= header_size
  /\ bytes_left(dgo_data, reader_seek) > 0

StoreUntouched == UNCHANGED << store_vars, stats >>

\* The bytes the calls so far account for: a header and the data each.
CallBytes == SumSeq([ k \in 1..Len(calls) |-> DgoHeaderSize + calls[k].obj_size ])

\* C12: a DGO with object count N is parsed to the end only if each of the
\* N objects had its declared length in bytes behind its header and the
\* reader is at the end of the buffer after the N-th; a declared length
\* above the bytes left is rejected before the object is inserted, and
\* bytes left after the N-th object are rejected.
C12_LengthsChecked ==
  /\ [](pc = "done" =>
          /\ Len(calls) = header_size
          /\ \A k \in 1..Len(calls) : calls[k].obj_size = Len(calls[k].obj_data)
          /\ reader_seek = Size(dgo_data)
          /\ DgoHeaderSize + CallBytes = Size(dgo_data))
  /\ [][TooLong => (pc' = "failed" /\ failure' = 140 /\ StoreUntouched)]_vars
  /\ [][Leftover => (pc' = "failed" /\ failure' = 148 /\ StoreUntouched)]_vars

C12_Witness ==
  /\ pc = "failed"
  /\ failure = 140
  /\ source.kind = "truncated_second"
  /\ Len(calls) = 1
  /\ bytes_left(dgo_data, reader_seek) = 3

\* A name field with a nonzero byte after its first zero byte, or with no
\* zero byte at all.
MalformedName(field) ==
  \/ Unterminated(field)
  \/ \E i, j \in 1..Len(field) : i < j /\ field[i] = 0 /\ field[j] # 0

\* C13: the header of a DGO or of an object whose name field is malformed
\* is rejected and its object is not inserted, and no name is read past the
\* 60 bytes of its field.
C13_NameFieldChecked ==
  /\ []~name_overread
  /\ [][((DgoHeaderAtReader \/ ObjectHeaderAtReader)
            /\ MalformedName(NameField(dgo_data, reader_seek)))
          => (pc' = "failed" /\ StoreUntouched)]_vars

\* C14: when the parse of a DGO fails, the store holds nothing of that DGO
\* (here the DGO is the first one, read into an empty database).
C14_AllOrNothing ==
  pc = "failed" =>
    /\ calls = << >>
    /\ StoredEntries = {}
    /\ Occurrences = {}
    /\ obj_file_order = << >>
    /\ stats.total_obj_files = 0
    /\ stats.unique_obj_files = 0
    /\ stats.unique_obj_bytes = 0

\* The step is a call of add_obj_from_dgo.
InsertStep == Len(calls') = Len(calls) + 1

InsertCounters(s) ==
  << s.total_obj_files, s.unique_obj_files, s.unique_obj_bytes >>

\* C15 as stated: no counter changes in a step that is not an insert.
C15_OnlyInsertCounts == [][stats' # stats => InsertStep]_vars

\* C15, amended: the three object counters change only in an insert;
\* total_dgo_bytes changes only when the file has just been read, by the
\* size of the file, and that step is not an insert.
C15_Counters ==
  /\ [][InsertCounters(stats') # InsertCounters(stats) => InsertStep]_vars
  /\ [][stats'.total_dgo_bytes # stats.total_dgo_bytes => pc = "start"]_vars
  /\ [][pc = "start" =>
          /\ stats'.total_dgo_bytes = stats.total_dgo_bytes + Size(dgo_data)
          /\ ~InsertStep]_vars

C15_Witness ==
  /\ pc = "failed"
  /\ failure = 134
  /\ source.kind = "other_name"
  /\ stats.total_dgo_bytes = 133
  /\ InsertCounters(stats) = << 0, 0, 0 >>


(***************************************************************************)
(* The phases that run on the built database, and the listing.             *)
(***************************************************************************)

\* The objects the phases are run on.
PhaseContents == { ContentA, ContentD }

\* for_each_obj: for every name of obj_file_order, in order, every variant
\* of obj_files_by_name[name], in order.  The visits from the k-th name on.
RECURSIVE VisitsFrom(_, _)

VisitsFrom(order, k) ==
  IF k > Len(order) THEN << >>
  ELSE [ i \in 1..Len(VariantsOf(order[k])) |-> << order[k], i >> ]
         \o VisitsFrom(order, k + 1)

for_each_obj == VisitsFrom(obj_file_order, 1)

\* A default-constructed LinkedObjectFile, with the phases that have run on
\* it since it was made (`ran` is history).
Unlinked ==
  [ segments |-> 0, functions_by_seg |-> << >>, labels_named |-> FALSE,
    ran |-> {} ]

\* obj.linked_data of the entry p.
LinkedOf(p) == IF p \in DOMAIN linked_data THEN linked_data[p] ELSE Unlinked

\* The number of segments the linker finds in an object file, and the
\* number of functions find_functions finds in each of them.
FunctionCounts(name, data) ==
  IF name = "a.o" /\ data = ContentA THEN << 1, 0, 1 >>
  ELSE IF name = "a.o" THEN << 2 >>
  ELSE IF data = ContentA THEN << 0, 0, 2 >>
  ELSE << 1, 0, 0 >>

\* to_linked_object_file(obj.data, obj.record.name).
to_linked_object_file(data, name) ==
  [ segments |-> Len(FunctionCounts(name, data)),
    functions_by_seg |-> [ s \in 1..Len(FunctionCounts(name, data)) |-> << >> ],
    labels_named |-> FALSE,
    ran |-> { "link" } ]

\* A Function as find_functions makes it.
NewFunction ==
  [ guessed_name |-> "", basic_blocks |-> << >>, prologue |-> FALSE,
    global_defs |-> FALSE ]

\* find_code, find_functions, disassemble_functions and
\* process_fp_relative_links on one object; the functions of an object
\* whose functions were found before are left as they are.
FoundCode(ld, name, data) ==
  [ ld EXCEPT
      !.functions_by_seg =
        IF "code" \in ld.ran THEN @
        ELSE [ s \in 1..ld.segments |->
                 [ i \in 1..FunctionCounts(name, data)[s] |-> NewFunction ] ],
      !.ran = @ \cup { "code" } ]

\* The phase each phase depends on.
Preceding ==
  [ labels |-> "link", code |-> "labels", analysis |-> "code" ]

\* The phase runs on an object on which the phase before it has not run.
RunsEarly(phase, visits) ==
  \E k \in 1..Len(visits) : Preceding[phase] \notin LinkedOf(visits[k]).ran

\* Lines 216-248.
process_link_data ==
  /\ ~fatal
  /\ built' = TRUE
  /\ linked_data' =
       [ p \in Range(for_each_obj) |->
           to_linked_object_file(Entry(p).data, Entry(p).record.name) ]
  /\ traversals' = traversals \cup { for_each_obj }
  /\ UNCHANGED << store_vars, stats, loader_vars, fatal, listing,
                  out_of_order >>

\* Lines 253-263.
process_labels ==
  /\ ~fatal
  /\ built' = TRUE
  /\ linked_data' =
       [ p \in Range(for_each_obj) |->
           [ LinkedOf(p) EXCEPT !.labels_named = TRUE,
                                !.ran = @ \cup { "labels" } ] ]
  /\ traversals' = traversals \cup { for_each_obj }
  /\ out_of_order' = (out_of_order \/ RunsEarly("labels", for_each_obj))
  /\ UNCHANGED << store_vars, stats, loader_vars, fatal, listing >>

\* Lines 326-363.
find_code ==
  /\ ~fatal
  /\ built' = TRUE
  /\ linked_data' =
       [ p \in Range(for_each_obj) |->
           FoundCode(LinkedOf(p), Entry(p).record.name, Entry(p).data) ]
  /\ traversals' = traversals \cup { for_each_obj }
  /\ out_of_order' = (out_of_order \/ RunsEarly("code", for_each_obj))
  /\ UNCHANGED << store_vars, stats, loader_vars, fatal, listing >>

\* Lines 402-405, on one function: find_blocks_in_function and
\* analyze_prologue.
BlocksFound(func) ==
  [ func EXCEPT !.basic_blocks = << "block" >>, !.prologue = TRUE ]

\* for_each_function on one object: every function of every segment.
EachFunction(ld, F(_)) ==
  [ ld EXCEPT
      !.functions_by_seg =
        [ s \in DOMAIN ld.functions_by_seg |->
            [ i \in DOMAIN ld.functions_by_seg[s] |->
                F(ld.functions_by_seg[s][i]) ] ] ]

\* Line 413: the top-level segment has a single function.
SingleTopLevel(ld) == Len(ld.functions_by_seg[3]) = 1

\* Line 416: the function has no name yet.
NotNamedYet_always(func) == TRUE

NotNamedYet(func) == func.guessed_name = ""

\* Lines 417-418.
NamedTopLevel(ld) ==
  [ ld EXCEPT !.functions_by_seg[3][1].guessed_name = "(top-level-init)",
              !.functions_by_seg[3][1].global_defs = TRUE ]

\* Lines 410-420: the objects from the k-th visit on, up to the first
\* assertion that fails.
RECURSIVE TopLevelFrom(_, _, _)

TopLevelFrom(lds, visits, k) ==
  IF k > Len(visits) THEN [ linked_data |-> lds, fatal |-> FALSE ]
  ELSE LET ld == lds[visits[k]]
       IN IF ld.segments # 3 THEN TopLevelFrom(lds, visits, k + 1)
          ELSE IF ~SingleTopLevel(ld)
            THEN [ linked_data |-> lds, fatal |-> TRUE ]
          ELSE IF ~NotNamedYet(ld.functions_by_seg[3][1])
            THEN [ linked_data |-> lds, fatal |-> TRUE ]
          ELSE TopLevelFrom([ lds EXCEPT ![visits[k]] = NamedTopLevel(ld) ],
                            visits, k + 1)

\* Lines 392-423, with get_config().find_basic_blocks as an input.
analyze_functions(find_basic_blocks) ==
  LET visits == for_each_obj
      ran == [ p \in Range(visits) |->
                 [ LinkedOf(p) EXCEPT !.ran = @ \cup { "analysis" } ] ]
      blocks == IF find_basic_blocks
                  THEN [ p \in Range(visits) |->
                           EachFunction(ran[p], BlocksFound) ]
                ELSE ran
      result == TopLevelFrom(blocks, visits, 1)
  IN /\ ~fatal
     /\ built' = TRUE
     /\ linked_data' = result.linked_data
     /\ fatal' = result.fatal
     /\ traversals' = traversals \cup { visits }
     /\ out_of_order' = (out_of_order \/ RunsEarly("analysis", visits))
     /\ UNCHANGED << store_vars, stats, loader_vars, listing >>

Analyze == \E find_basic_blocks \in BOOLEAN : analyze_functions(find_basic_blocks)

\* std::string's operator<: the characters are compared in turn.
StringLess(a, b) ==
  LET x == CharsOf[a]
      y == CharsOf[b]
  IN \E k \in 1..Len(y) :
       /\ k - 1 <= Len(x)
       /\ \A j \in 1..(k - 1) : x[j] = y[j]
       /\ k > Len(x) \/ x[k] < y[k]

\* The keys of an unordered_map come in an order the map chooses.
IterationOrders(keys) ==
  { order \in [ 1..Cardinality(keys) -> keys ] : Range(order) = keys }

\* Line 200: std::sort(dgo_names.begin(), dgo_names.end()).
RECURSIVE SortedFrom(_)

SortedFrom(names) ==
  IF names = {} THEN << >>
  ELSE LET least == CHOOSE n \in names :
                      \A o \in names \ { n } : StringLess(n, o)
       IN << least >> \o SortedFrom(names \ { least })

std_sort_none(dgo_names) == dgo_names

std_sort(dgo_names) == SortedFrom(Range(dgo_names))

\* Line 205: the line of one membership record.
MemberLine(obj) ==
  "  " \o obj.name \o " :version " \o ToString(obj.version) \o "\n"

\* Line 194: what the result starts with.
ListingTitle == ";; DGO File Listing\n\n"

\* Line 203: the line that opens a DGO.
DgoLine(name) == "(\"" \o name \o "\"\n"

\* Line 207: what closes a DGO.
DgoClose == "  )\n\n"

\* Lines 202-208: what is appended to the result for the DGOs from the k-th
\* name on, one element for each `result +=`.
RECURSIVE DgoLines(_, _)

DgoLines(dgo_names, k) ==
  IF k > Len(dgo_names) THEN << >>
  ELSE << DgoLine(dgo_names[k]) >>
         \o [ i \in 1..Len(obj_files_by_dgo[dgo_names[k]]) |->
                MemberLine(obj_files_by_dgo[dgo_names[k]][i]) ]
         \o << DgoClose >>
         \o DgoLines(dgo_names, k + 1)

\* Lines 193-211; `listing` holds the result as the sequence of the strings
\* appended to it.
generate_dgo_listing ==
  \E dgo_names \in IterationOrders(DOMAIN obj_files_by_dgo) :
    /\ ~fatal
    /\ built' = TRUE
    /\ listing' = << ListingTitle >> \o DgoLines(std_sort(dgo_names), 1)
    /\ UNCHANGED << store_vars, stats, loader_vars, linked_data, fatal,
                    traversals, out_of_order >>

\* The constructor, lines 33-35: the objects come in before any phase runs.
Build ==
  /\ ~built
  /\ \E obj_name \in ObjNames, dgo_name \in DgoNames,
        obj_data \in PhaseContents :
       add_obj_from_dgo(obj_name, obj_data, Len(obj_data), dgo_name)
  /\ UNCHANGED << loader_vars, phase_vars >>

NextPhases ==
  \/ Build
  \/ process_link_data
  \/ process_labels
  \/ find_code
  \/ Analyze
  \/ generate_dgo_listing

SpecPhases == Init /\ [][NextPhases]_vars

(***************************************************************************)
(* Claims about the phases and the listing.                                *)
(***************************************************************************)

\* The position in `calls` of the first call that brought the name.
FirstCallOf(name) ==
  CHOOSE k \in 1..Len(calls) :
    /\ calls[k].obj_name = name
    /\ \A j \in 1..(k - 1) : calls[j].obj_name # name

\* The number of times a traversal visits the entry p.
VisitCount(t, p) == Cardinality({ k \in 1..Len(t) : t[k] = p })

\* C16: every for_each_obj traversal visits every stored entry (every
\* variant of every name) exactly once and nothing else, the names in the
\* order in which they were first inserted and the variants of a name in
\* the order of their versions, however many DGOs reference an entry; all
\* the traversals of one database visit in the same order.
C16_TraversalOnce ==
  /\ Cardinality(traversals) <= 1
  /\ \A t \in traversals :
       /\ Range(t) \subseteq StoredEntries
       /\ \A p \in StoredEntries : VisitCount(t, p) = 1
       /\ \A k, l \in 1..Len(t) :
            k < l =>
              \/ FirstCallOf(t[k][1]) < FirstCallOf(t[l][1])
              \/ t[k][1] = t[l][1] /\ t[k][2] < t[l][2]

\* Two traversals (link, then labels) of a database whose second name
\* sorts before its first and whose first entry is referenced by two DGOs.
C16_Witness ==
  /\ traversals = { << << "a.o-v1", 1 >>, << "a.o", 1 >> >> }
  /\ Entry(<< "a.o-v1", 1 >>).reference_count = 2
  /\ LinkedOf(<< "a.o", 1 >>).ran = { "link", "labels" }

\* C17: whatever the sequence of calls of the phases, process_labels never
\* runs on an object before process_link_data has run on it, find_code
\* never before process_labels, and analyze_functions never before
\* find_code.
C17_PhasesInOrder == ~out_of_order

\* The calls of add_obj_from_dgo that came from the DGO, in order.
CallsFrom(dgo_name) == SelectSeq(calls, LAMBDA c : c.dgo_name = dgo_name)

\* The positions of the listing that hold the line.
PositionsOf(line) == { k \in 1..Len(listing) : listing[k] = line }

\* The position of the line that opens the DGO.
OpenedAt(dgo_name) == CHOOSE k \in PositionsOf(DgoLine(dgo_name)) : TRUE

\* C18: the listing starts with its title; every DGO that has a membership
\* list is opened exactly once, a DGO whose name is lexicographically
\* smaller before one whose name is greater; the line of a DGO is followed
\* by one line for each object inserted from that DGO, in the order of the
\* inserts, a repeated object repeated, with the name of the object and the
\* version of its record, and then by the closing line; nothing else is in
\* the listing; and a listing generated again, whatever the order in which
\* the map hands out its keys, is the same.
C18_ListingSorted ==
  /\ [](listing # << >> =>
          /\ listing[1] = ListingTitle
          /\ \A d \in DOMAIN obj_files_by_dgo :
               /\ Cardinality(PositionsOf(DgoLine(d))) = 1
               /\ Len(CallsFrom(d)) = Len(obj_files_by_dgo[d])
               /\ \A k \in 1..Len(CallsFrom(d)) :
                    listing[OpenedAt(d) + k] =
                      MemberLine([ name |-> CallsFrom(d)[k].obj_name,
                                   version |-> obj_files_by_dgo[d][k].version ])
               /\ listing[OpenedAt(d) + Len(CallsFrom(d)) + 1] = DgoClose
          /\ \A d, e \in DOMAIN obj_files_by_dgo :
               StringLess(d, e) => OpenedAt(d) < OpenedAt(e)
          /\ Len(listing) =
               1 + Len(calls) + 2 * Cardinality(DOMAIN obj_files_by_dgo))
  /\ [][listing # << >> => listing' = listing]_vars

\* main.dgo is inserted from first and twice holds the same object; game.dgo
\* comes first in the listing.
C18_Witness ==
  /\ obj_file_order = << "a.o" >>
  /\ calls[1].dgo_name = "main.dgo"
  /\ listing = << ";; DGO File Listing\n\n",
                  "(\"game.dgo\"\n",
                  "  a.o :version 0\n",
                  "  )\n\n",
                  "(\"main.dgo\"\n",
                  "  a.o :version 0\n",
                  "  a.o :version 0\n",
                  "  )\n\n" >>

\* The functions of the entry p, as << segment, index >>.
FunctionsOf(p) ==
  UNION { { << seg, i >> : i \in 1..Len(LinkedOf(p).functions_by_seg[seg]) } :
            seg \in 1..Len(LinkedOf(p).functions_by_seg) }

\* The function f of the entry p before and after the step.
Before(p, f) == LinkedOf(p).functions_by_seg[f[1]][f[2]]

After(p, f) == linked_data'[p].functions_by_seg[f[1]][f[2]]

ThreeSegments(p) == LinkedOf(p).segments = 3

\* The third segment holds zero or more than one function.
Malformed(p) ==
  ThreeSegments(p) /\ Len(LinkedOf(p).functions_by_seg[3]) # 1

\* The third segment holds one function, which has a name already.
AlreadyNamed(p) ==
  /\ ThreeSegments(p)
  /\ Len(LinkedOf(p).functions_by_seg[3]) = 1
  /\ Before(p, << 3, 1 >>).guessed_name # ""

\* What a call of analyze_functions does, given the objects on which it
\* stops: the run fails exactly when there is such an object; in a run that
\* does not fail the single function of the third segment of every object
\* of three segments is named and its definitions are extracted; the
\* functions of the objects of another segment count keep their names; the
\* blocks and the prologue of every function are analysed when the flag is
\* set and left alone when it is not.
AnalyzeDoes(find_basic_blocks, Stops(_)) ==
  /\ fatal' = (\E p \in StoredEntries : Stops(p))
  /\ \A p \in StoredEntries :
       /\ (ThreeSegments(p) /\ ~fatal') =>
            /\ After(p, << 3, 1 >>).guessed_name = "(top-level-init)"
            /\ After(p, << 3, 1 >>).global_defs
       /\ ~ThreeSegments(p) =>
            \A f \in FunctionsOf(p) :
              /\ After(p, f).guessed_name = Before(p, f).guessed_name
              /\ After(p, f).global_defs = Before(p, f).global_defs
       /\ \A f \in FunctionsOf(p) :
            IF find_basic_blocks
              THEN After(p, f).basic_blocks # << >> /\ After(p, f).prologue
            ELSE /\ After(p, f).basic_blocks = Before(p, f).basic_blocks
                 /\ After(p, f).prologue = Before(p, f).prologue

\* C19 as stated: with the flag set or not, analyze_functions names the
\* single function of the third segment of every object of three segments
\* "(top-level-init)" and extracts its definitions, fails exactly when such
\* a segment holds zero or more than one function, leaves the objects of
\* another segment count untouched, and analyses blocks and prologues
\* exactly when the flag is set.
C19_TopLevelConvention ==
  [][\A find_basic_blocks \in BOOLEAN :
       analyze_functions(find_basic_blocks) =>
         AnalyzeDoes(find_basic_blocks, Malformed)]_vars

\* C19, amended: the same, and the run also fails when the single function
\* of the third segment has a name already (analyze_functions has named it
\* before).
C19_TopLevelUnnamed ==
  [][\A find_basic_blocks \in BOOLEAN :
       analyze_functions(find_basic_blocks) =>
         AnalyzeDoes(find_basic_blocks,
                     LAMBDA p : Malformed(p) \/ AlreadyNamed(p))]_vars

\* analyze_functions, with the flag set, has run on an object of three
\* segments and on one of a single segment.
C19_Witness ==
  /\ ~fatal
  /\ StoredEntries = { << "a.o", 1 >>, << "a.o", 2 >> }
  /\ LinkedOf(<< "a.o", 1 >>).ran = { "link", "labels", "code", "analysis" }
  /\ LinkedOf(<< "a.o", 1 >>).segments = 3
  /\ LinkedOf(<< "a.o", 1 >>).functions_by_seg[3] =
       << [ guessed_name |-> "(top-level-init)", basic_blocks |-> << "block" >>,
            prologue |-> TRUE, global_defs |-> TRUE ] >>
  /\ LinkedOf(<< "a.o", 2 >>).segments = 1
  /\ Len(LinkedOf(<< "a.o", 2 >>).functions_by_seg[1]) = 2
  /\ LinkedOf(<< "a.o", 2 >>).functions_by_seg[1][2] =
       [ guessed_name |-> "", basic_blocks |-> << "block" >>,
         prologue |-> TRUE, global_defs |-> FALSE ]

=============================================================================
